---- MODULE Spec2Model ----
(***************************************************************************)
(* Range-query and test-pool engine of quran-mastery (src/engine.ts as     *)
(* found in src/quran-mastery/src/types.ts lines 66-154).                  *)
(*                                                                         *)
(* The engine is a set of pure functions over the verse index `ayahs`.     *)
(* The state is the loaded index, the last engine call (its name, its      *)
(* arguments, the value it returned and whether it raised an error         *)
(* instead of returning) and the range builder of the UI                   *)
(* (TestPoolBuilder): its descriptor list (the `ranges` state, here        *)
(* selectedRanges) and its inline `error`.                                 *)
(***************************************************************************)
EXTENDS Integers, Sequences, FiniteSets, TLC

VARIABLES ayahs, op, args, ret, threw, selectedRanges, error

\* The quiz (QuizView): the component's state, the App state it is handed
\* (quizActive, attempts), the attempts table of the server, the
\* handleAnswer calls that await their POST, and the position of a running
\* startQuiz with its locals.  The lists `questions`, `attempts` and the
\* table are kept by their lengths: nQuestions, nAttempts, dbAttempts.
\* started, nWrong and nOverlaps count what the user did, for the bounds.
VARIABLES variant, nQuestions, currentIndex, score, lives, timeLeft, finished,
          quizActive, nAttempts, dbAttempts, inflight,
          started, nWrong, nOverlaps,
          pc, gen, question, options

quizVars == <<variant, nQuestions, currentIndex, score, lives, timeLeft, finished,
              quizActive, nAttempts, dbAttempts, inflight,
              started, nWrong, nOverlaps,
              pc, gen, question, options>>

vars == <<ayahs, op, args, ret, threw, selectedRanges, error, quizVars>>

(***************************************************************************)
(* Bounds.                                                                 *)
(***************************************************************************)
\* Largest number of verses in a generated index.
MaxLen == 3

\* Largest number of range descriptors handed to buildTestPool.
MaxRanges == 2

(***************************************************************************)
(* JavaScript helpers: Array.prototype.find / filter, undefined.           *)
(***************************************************************************)
undefined == [tag |-> "undefined"]

\* Array.prototype.find: the first element, in array order, among those at
\* the positions `hits` (the positions whose element satisfies the callback).
Find(s, hits) ==
  IF hits = {}
    THEN undefined
    ELSE s[CHOOSE i \in hits : \A j \in hits : i <= j]

\* Array.prototype.filter (stable, keeps array order) is SelectSeq.

\* [...s].reverse()
Reverse(s) == [i \in 1..Len(s) |-> s[Len(s) + 1 - i]]

\* s[i] with a 0-based JavaScript index: undefined when out of range.
At(s, i) == IF i >= 0 /\ i < Len(s) THEN s[i + 1] ELSE undefined

\* The template literal `${surah}:${ayah}`.
VerseKey(surah, ayah) == ToString(surah) \o ":" \o ToString(ayah)

(***************************************************************************)
(* The verse index (interface Ayah).  An index is grown verse by verse     *)
(* from the first verse of the text; each further verse is described by a  *)
(* step: how far global_order advances, which structural boundary (if any) *)
(* the verse opens, and whether it opens a new page.  text_indopak and     *)
(* line_numbers are opaque to the engine and are left out.                 *)
(***************************************************************************)
FirstAyah ==
  [verse_key |-> VerseKey(1, 1), surah |-> 1, ayah |-> 1, page_13line |-> 1,
   global_order |-> 1, juz_number |-> 1, ruku_global |-> 1, ruku_in_juz |-> 1,
   is_ruku_start |-> TRUE, is_page_start |-> TRUE, is_page_end |-> FALSE]

\* The verse that follows `last` under step `st`.
StepAyah(last, st) ==
  LET surah == IF st.kind = "surah" THEN last.surah + 1 ELSE last.surah
      ayah  == IF st.kind = "surah" THEN 1 ELSE last.ayah + 1
  IN [verse_key     |-> VerseKey(surah, ayah),
      surah         |-> surah,
      ayah          |-> ayah,
      page_13line   |-> last.page_13line + st.dPage,
      global_order  |-> last.global_order + st.dOrder,
      juz_number    |-> IF st.kind = "juz" THEN last.juz_number + 1 ELSE last.juz_number,
      ruku_global   |-> CASE st.kind = "ayah" -> last.ruku_global
                          [] st.kind = "skip" -> last.ruku_global + 2
                          [] OTHER            -> last.ruku_global + 1,
      ruku_in_juz   |-> CASE st.kind = "ayah" -> last.ruku_in_juz
                          [] st.kind = "juz"  -> 1
                          [] OTHER            -> last.ruku_in_juz + 1,
      is_ruku_start |-> st.kind # "ayah",
      is_page_start |-> st.dPage > 0,
      is_page_end   |-> FALSE]

RECURSIVE Grow(_)
Grow(steps) ==
  IF steps = <<>>
    THEN <<FirstAyah>>
    ELSE LET front == Grow(SubSeq(steps, 1, Len(steps) - 1))
         IN Append(front, StepAyah(front[Len(front)], steps[Len(steps)]))

\* is_page_end: the verse is the last one on its page.
MkIndex(steps) ==
  LET a == Grow(steps)
  IN [i \in 1..Len(a) |->
        [a[i] EXCEPT !.is_page_end =
            (i = Len(a)) \/ a[i + 1].page_13line # a[i].page_13line]]

SeqsUpTo(S, n) == UNION {[1..k -> S] : k \in 0..n}

\* All indexes of 1..MaxLen verses whose steps are drawn from Steps, and
\* the index before the data is loaded (useState<Ayah[]>([])).
Indexes(Steps) == {MkIndex(s) : s \in SeqsUpTo(Steps, MaxLen - 1)} \cup {<<>>}

(***************************************************************************)
(* Range resolvers.                                                        *)
(***************************************************************************)
\* Variant: the end verse is left out of the span.
VerseSpanExclusiveEnd(as, startKey, endKey) ==
  LET startAyah == Find(as, {i \in DOMAIN as : as[i].verse_key = startKey})
      endAyah   == Find(as, {i \in DOMAIN as : as[i].verse_key = endKey})
  IN IF startAyah = undefined \/ endAyah = undefined THEN <<>>
     ELSE IF startAyah.global_order > endAyah.global_order THEN <<>>
     ELSE SelectSeq(as, LAMBDA a : a.global_order >= startAyah.global_order
                                /\ a.global_order < endAyah.global_order)

\* Variant: an inverted span is normalised by swapping its endpoints.
VerseSpanSwapInverted(as, startKey, endKey) ==
  LET startAyah == Find(as, {i \in DOMAIN as : as[i].verse_key = startKey})
      endAyah   == Find(as, {i \in DOMAIN as : as[i].verse_key = endKey})
  IN IF startAyah = undefined \/ endAyah = undefined THEN <<>>
     ELSE LET lo == IF startAyah.global_order > endAyah.global_order
                      THEN endAyah.global_order ELSE startAyah.global_order
              hi == IF startAyah.global_order > endAyah.global_order
                      THEN startAyah.global_order ELSE endAyah.global_order
          IN SelectSeq(as, LAMBDA a : a.global_order >= lo /\ a.global_order <= hi)

get_ayahs_between_verse_keys(as, startKey, endKey) ==
  LET startAyah == Find(as, {i \in DOMAIN as : as[i].verse_key = startKey})
      endAyah   == Find(as, {i \in DOMAIN as : as[i].verse_key = endKey})
  IN IF startAyah = undefined \/ endAyah = undefined THEN <<>>
     ELSE IF startAyah.global_order > endAyah.global_order THEN <<>>
     ELSE SelectSeq(as, LAMBDA a : a.global_order >= startAyah.global_order
                                /\ a.global_order <= endAyah.global_order)

get_ayahs_for_ruku(as, juz, ruku_in_juz) ==
  SelectSeq(as, LAMBDA a : a.juz_number = juz /\ a.ruku_in_juz = ruku_in_juz)

\* Variant: the span ends at the first verse of the end ruku.
RukuSpanEndAtFirst(as, startJuz, startRuku, endJuz, endRuku) ==
  LET startRukuAyahs == get_ayahs_for_ruku(as, startJuz, startRuku)
      endRukuAyahs   == get_ayahs_for_ruku(as, endJuz, endRuku)
  IN IF Len(startRukuAyahs) = 0 \/ Len(endRukuAyahs) = 0 THEN <<>>
     ELSE LET startOrder == startRukuAyahs[1].global_order
              endOrder   == endRukuAyahs[1].global_order
          IN IF startOrder > endOrder THEN <<>>
             ELSE SelectSeq(as, LAMBDA a : a.global_order >= startOrder
                                        /\ a.global_order <= endOrder)

\* Variant: an absent start ruku makes the span begin at the first verse.
RukuSpanDefaultStart(as, startJuz, startRuku, endJuz, endRuku) ==
  LET startRukuAyahs == get_ayahs_for_ruku(as, startJuz, startRuku)
      endRukuAyahs   == get_ayahs_for_ruku(as, endJuz, endRuku)
  IN IF Len(endRukuAyahs) = 0 THEN <<>>
     ELSE LET startOrder == IF Len(startRukuAyahs) = 0 THEN as[1].global_order
                            ELSE startRukuAyahs[1].global_order
              endOrder   == endRukuAyahs[Len(endRukuAyahs)].global_order
          IN IF startOrder > endOrder THEN <<>>
             ELSE SelectSeq(as, LAMBDA a : a.global_order >= startOrder
                                        /\ a.global_order <= endOrder)

get_ayahs_between_rukus(as, startJuz, startRuku, endJuz, endRuku) ==
  LET startRukuAyahs == get_ayahs_for_ruku(as, startJuz, startRuku)
      endRukuAyahs   == get_ayahs_for_ruku(as, endJuz, endRuku)
  IN IF Len(startRukuAyahs) = 0 \/ Len(endRukuAyahs) = 0 THEN <<>>
     ELSE LET startOrder == startRukuAyahs[1].global_order
              endOrder   == endRukuAyahs[Len(endRukuAyahs)].global_order
          IN IF startOrder > endOrder THEN <<>>
             ELSE SelectSeq(as, LAMBDA a : a.global_order >= startOrder
                                        /\ a.global_order <= endOrder)

\* Variant: the end juz is left out of the range.
JuzRangeExclusiveEnd(as, startJuz, endJuz) ==
  IF startJuz > endJuz THEN <<>>
  ELSE SelectSeq(as, LAMBDA a : a.juz_number >= startJuz /\ a.juz_number < endJuz)

get_ayahs_for_juz_range(as, startJuz, endJuz) ==
  IF startJuz > endJuz THEN <<>>
  ELSE SelectSeq(as, LAMBDA a : a.juz_number >= startJuz /\ a.juz_number <= endJuz)

(***************************************************************************)
(* Errors.  The one way an engine function can raise is a TypeError from   *)
(* reading a property of undefined (x.global_order, x[0].global_order);    *)
(* find, filter, comparisons and reads past the end of an array do not     *)
(* raise.  For each function that reads a property of a value that can be  *)
(* undefined, the predicate below says whether the call raises.            *)
(***************************************************************************)
ReadOfUndefined(x) == x = undefined

\* startAyah.global_order, endAyah.global_order: read past the return of
\* `if (!startAyah || !endAyah) return []`.
VerseSpanThrows(as, startKey, endKey) ==
  LET startAyah == Find(as, {i \in DOMAIN as : as[i].verse_key = startKey})
      endAyah   == Find(as, {i \in DOMAIN as : as[i].verse_key = endKey})
  IN IF startAyah = undefined \/ endAyah = undefined THEN FALSE
     ELSE ReadOfUndefined(startAyah) \/ ReadOfUndefined(endAyah)

\* startRukuAyahs[0].global_order, endRukuAyahs[length - 1].global_order:
\* read past the return on an empty endpoint ruku.
RukuSpanThrows(as, startJuz, startRuku, endJuz, endRuku) ==
  LET startRukuAyahs == get_ayahs_for_ruku(as, startJuz, startRuku)
      endRukuAyahs   == get_ayahs_for_ruku(as, endJuz, endRuku)
  IN IF Len(startRukuAyahs) = 0 \/ Len(endRukuAyahs) = 0 THEN FALSE
     ELSE \/ ReadOfUndefined(At(startRukuAyahs, 0))
          \/ ReadOfUndefined(At(endRukuAyahs, Len(endRukuAyahs) - 1))

(***************************************************************************)
(* Inputs of the resolver calls, drawn from the index and one value past   *)
(* or two past it so that absent keys and absent rukus / juz occur.        *)
(***************************************************************************)
AbsentKey == "9:9"

Range(s) == {s[i] : i \in 1..Len(s)}

SetMax(S) == CHOOSE m \in S : \A x \in S : x <= m

KeyInputs(as) == {a.verse_key : a \in Range(as)} \cup {AbsentKey}

JuzInputs(as) == 0..(SetMax({a.juz_number : a \in Range(as)} \cup {1}) + 2)

RukuInputs(as) == 1..(SetMax({a.ruku_in_juz : a \in Range(as)} \cup {1}) + 1)

(***************************************************************************)
(* Specification of the resolver calls.                                    *)
(***************************************************************************)
\* Steps of the indexes the resolvers are run on.
ResolveSteps == [dOrder : {1, 2}, kind : {"ayah", "ruku", "juz", "surah"}, dPage : {0}]

\* No engine call has been made yet.
Idle ==
  /\ op = "none"
  /\ args = <<>>
  /\ ret = <<>>
  /\ threw = FALSE

\* The range builder as mounted: useState<TestPoolRange[]>([]) and
\* useState<string | null>(null).
NoRanges ==
  /\ selectedRanges = <<>>
  /\ error = "null"

\* QuizView as mounted (its useState defaults), no quiz active, no attempt
\* made or stored yet, no call awaiting its POST, startQuiz not running.
QuizMounted ==
  /\ variant = "null"
  /\ nQuestions = 0
  /\ currentIndex = 0
  /\ score = 0
  /\ lives = 3
  /\ timeLeft = 60
  /\ finished = FALSE
  /\ quizActive = FALSE
  /\ nAttempts = 0
  /\ dbAttempts = 0
  /\ inflight = <<>>
  /\ started = 0
  /\ nWrong = 0
  /\ nOverlaps = 0
  /\ pc = "idle"
  /\ gen = [v |-> "null", i |-> 0]
  /\ question = [type |-> "none"]
  /\ options = {}

InitResolve ==
  /\ ayahs \in Indexes(ResolveSteps)
  /\ Idle
  /\ NoRanges
  /\ QuizMounted

\* The caller drops the result of the last call: resolver results and pools
\* are ephemeral values, recomputed on demand.
Discard ==
  /\ op # "none"
  /\ op' = "none"
  /\ args' = <<>>
  /\ ret' = <<>>
  /\ threw' = FALSE
  /\ UNCHANGED <<ayahs, selectedRanges, error, quizVars>>

CallVerseSpan ==
  /\ op = "none"
  /\ \E startKey \in KeyInputs(ayahs), endKey \in KeyInputs(ayahs) :
       /\ op' = "get_ayahs_between_verse_keys"
       /\ args' = <<startKey, endKey>>
       /\ threw' = VerseSpanThrows(ayahs, startKey, endKey)
       /\ ret' = IF VerseSpanThrows(ayahs, startKey, endKey) THEN ret
                 ELSE get_ayahs_between_verse_keys(ayahs, startKey, endKey)
       /\ UNCHANGED <<ayahs, selectedRanges, error, quizVars>>

CallRukuSpan ==
  /\ op = "none"
  /\ \E startJuz \in JuzInputs(ayahs), startRuku \in RukuInputs(ayahs),
        endJuz \in JuzInputs(ayahs), endRuku \in RukuInputs(ayahs) :
       /\ op' = "get_ayahs_between_rukus"
       /\ args' = <<startJuz, startRuku, endJuz, endRuku>>
       /\ threw' = RukuSpanThrows(ayahs, startJuz, startRuku, endJuz, endRuku)
       /\ ret' = IF RukuSpanThrows(ayahs, startJuz, startRuku, endJuz, endRuku) THEN ret
                 ELSE get_ayahs_between_rukus(ayahs, startJuz, startRuku, endJuz, endRuku)
       /\ UNCHANGED <<ayahs, selectedRanges, error, quizVars>>

CallJuzRange ==
  /\ op = "none"
  /\ \E startJuz \in JuzInputs(ayahs), endJuz \in JuzInputs(ayahs) :
       /\ op' = "get_ayahs_for_juz_range"
       /\ args' = <<startJuz, endJuz>>
       /\ threw' = FALSE
       /\ ret' = get_ayahs_for_juz_range(ayahs, startJuz, endJuz)
       /\ UNCHANGED <<ayahs, selectedRanges, error, quizVars>>

NextResolve == CallVerseSpan \/ CallRukuSpan \/ CallJuzRange \/ Discard

SpecResolve == InitResolve /\ [][NextResolve]_vars

(***************************************************************************)
(* Properties of the resolvers.                                            *)
(***************************************************************************)
\* s is strictly ascending by global_order.
Ascending(s) == \A i \in 1..(Len(s) - 1) : s[i].global_order < s[i + 1].global_order

\* The verses of the index whose global_order lies in [lo, hi].
InOrderRange(as, lo, hi) ==
  {a \in Range(as) : a.global_order >= lo /\ a.global_order <= hi}

\* s lists exactly the verses of S, each once, in ascending global_order.
IsExactly(s, S) == Ascending(s) /\ Range(s) = S

WithKey(as, key) == {a \in Range(as) : a.verse_key = key}

InRuku(as, juz, ruku) ==
  {a \in Range(as) : a.juz_number = juz /\ a.ruku_in_juz = ruku}

MinOrder(S) == CHOOSE m \in {a.global_order : a \in S} : \A a \in S : m <= a.global_order

MaxOrder(S) == CHOOSE m \in {a.global_order : a \in S} : \A a \in S : m >= a.global_order

\* C4: when both keys exist and start.global_order <= end.global_order,
\* get_ayahs_between_verse_keys returns exactly the verses whose global_order
\* lies in [start.global_order, end.global_order], both endpoints included
\* (one verse when start = end), in ascending global_order.
C4_VerseSpanInclusive ==
  op = "get_ayahs_between_verse_keys" =>
    \A s \in WithKey(ayahs, args[1]), e \in WithKey(ayahs, args[2]) :
      s.global_order <= e.global_order =>
        /\ IsExactly(ret, InOrderRange(ayahs, s.global_order, e.global_order))
        /\ ret[1] = s
        /\ ret[Len(ret)] = e

C4_Witness ==
  /\ op = "get_ayahs_between_verse_keys"
  /\ args[1] # args[2]
  /\ Len(ret) >= 3
  /\ ret[1].verse_key = args[1]
  /\ ret[Len(ret)].verse_key = args[2]

\* C5: when both endpoint sets are non-empty and not inverted,
\* get_ayahs_between_rukus returns, in ascending global_order, every verse
\* whose global_order lies between the first verse of the start set and the
\* last verse of the end set; this includes all verses of every ruku lying
\* between the two endpoint rukus.
C5_RukuSpanContiguous ==
  op = "get_ayahs_between_rukus" =>
    LET S == InRuku(ayahs, args[1], args[2])
        E == InRuku(ayahs, args[3], args[4])
    IN (S # {} /\ E # {} /\ MinOrder(S) <= MaxOrder(E)) =>
         /\ IsExactly(ret, InOrderRange(ayahs, MinOrder(S), MaxOrder(E)))
         /\ S \subseteq Range(ret)
         /\ E \subseteq Range(ret)
         /\ \A a \in Range(ayahs) :
              (\E x \in S, y \in E : x.ruku_global <= a.ruku_global
                                      /\ a.ruku_global <= y.ruku_global)
                => a \in Range(ret)

C5_Witness ==
  /\ op = "get_ayahs_between_rukus"
  /\ InRuku(ayahs, args[1], args[2]) # {}
  /\ InRuku(ayahs, args[3], args[4]) # {}
  /\ \E a \in Range(ret) :
       /\ a \notin InRuku(ayahs, args[1], args[2])
       /\ a \notin InRuku(ayahs, args[3], args[4])

\* C6: get_ayahs_for_juz_range returns exactly the verses whose juz_number
\* lies in [startJuz, endJuz], in ascending global_order, and the empty
\* sequence whenever startJuz > endJuz.
C6_JuzRangeInclusive ==
  op = "get_ayahs_for_juz_range" =>
    /\ IsExactly(ret, {a \in Range(ayahs) :
                         a.juz_number >= args[1] /\ a.juz_number <= args[2]})
    /\ (args[1] > args[2] => ret = <<>>)

C6_Witness ==
  /\ op = "get_ayahs_for_juz_range"
  /\ args[1] < args[2]
  /\ Len(ret) >= 2
  /\ ret[1].juz_number = args[1]
  /\ ret[Len(ret)].juz_number = args[2]

\* C7: get_ayahs_between_verse_keys returns the empty sequence whenever the
\* start key or the end key matches no verse, and whenever
\* start.global_order > end.global_order.
C7_VerseSpanEmpty ==
  (/\ op = "get_ayahs_between_verse_keys"
   /\ \/ WithKey(ayahs, args[1]) = {}
      \/ WithKey(ayahs, args[2]) = {}
      \/ \E s \in WithKey(ayahs, args[1]), e \in WithKey(ayahs, args[2]) :
           s.global_order > e.global_order)
    => ret = <<>>

C7_Witness ==
  /\ op = "get_ayahs_between_verse_keys"
  /\ \E s \in WithKey(ayahs, args[1]), e \in WithKey(ayahs, args[2]) :
       s.global_order > e.global_order
  /\ ret = <<>>

\* C8: get_ayahs_between_rukus returns the empty sequence whenever either
\* endpoint's (juz, ruku_in_juz) pair matches no verse, and whenever the
\* first verse of the start set comes after the last verse of the end set.
C8_RukuSpanEmpty ==
  op = "get_ayahs_between_rukus" =>
    LET S == InRuku(ayahs, args[1], args[2])
        E == InRuku(ayahs, args[3], args[4])
    IN (S = {} \/ E = {} \/ MinOrder(S) > MaxOrder(E)) => ret = <<>>

C8_Witness ==
  /\ op = "get_ayahs_between_rukus"
  /\ InRuku(ayahs, args[1], args[2]) = {}
  /\ InRuku(ayahs, args[3], args[4]) # {}
  /\ ret = <<>>

(***************************************************************************)
(* Pool builder.                                                           *)
(***************************************************************************)
\* Map.prototype.set on a Map kept as the sequence of its entries in
\* insertion order: an existing key keeps its position and takes the value.
MapSet(m, k, v) ==
  IF \E i \in 1..Len(m) : m[i].key = k
    THEN [i \in 1..Len(m) |-> IF m[i].key = k THEN [key |-> k, value |-> v] ELSE m[i]]
    ELSE Append(m, [key |-> k, value |-> v])

\* rangeAyahs.forEach(a => poolMap.set(a.verse_key, a))
RECURSIVE SetAll(_, _)
SetAll(m, rangeAyahs) ==
  IF rangeAyahs = <<>>
    THEN m
    ELSE SetAll(MapSet(m, Head(rangeAyahs).verse_key, Head(rangeAyahs)), Tail(rangeAyahs))

\* The dispatch on range.type; an unrecognised type leaves rangeAyahs = [].
ResolveRange(as, range) ==
  IF range.type = "ayah"
    THEN get_ayahs_between_verse_keys(as,
           VerseKey(range.start.surah, range.start.ayah),
           VerseKey(range.end.surah, range.end.ayah))
  ELSE IF range.type = "ruku"
    THEN get_ayahs_between_rukus(as, range.start.juz, range.start.ruku,
                                 range.end.juz, range.end.ruku)
  ELSE IF range.type = "juz"
    THEN get_ayahs_for_juz_range(as, range.start, range.end)
  ELSE <<>>

\* ranges.forEach(range => ...): the Map after all ranges were resolved.
RECURSIVE PoolMap(_, _)
PoolMap(as, ranges) ==
  IF ranges = <<>>
    THEN <<>>
    ELSE SetAll(PoolMap(as, SubSeq(ranges, 1, Len(ranges) - 1)),
                ResolveRange(as, ranges[Len(ranges)]))

\* Array.from(poolMap.values())
MapValues(m) == [i \in 1..Len(m) |-> m[i].value]

\* Array.prototype.sort((a, b) => a.global_order - b.global_order): a stable
\* sort, ascending by global_order.
InsertByOrder(sorted, x) ==
  LET k == Cardinality({i \in 1..Len(sorted) : sorted[i].global_order <= x.global_order})
  IN SubSeq(sorted, 1, k) \o <<x>> \o SubSeq(sorted, k + 1, Len(sorted))

RECURSIVE SortByOrder(_)
SortByOrder(s) ==
  IF s = <<>>
    THEN <<>>
    ELSE InsertByOrder(SortByOrder(SubSeq(s, 1, Len(s) - 1)), s[Len(s)])

RECURSIVE ConcatRanges(_, _)
ConcatRanges(as, ranges) ==
  IF ranges = <<>>
    THEN <<>>
    ELSE ResolveRange(as, Head(ranges)) \o ConcatRanges(as, Tail(ranges))

\* Variant: the resolved ranges are concatenated without the Map.
BuildPoolNoDedup(as, ranges) == SortByOrder(ConcatRanges(as, ranges))

\* Variant: the Map is keyed by the ayah number instead of the verse key.
RECURSIVE SetAllByAyah(_, _)
SetAllByAyah(m, rangeAyahs) ==
  IF rangeAyahs = <<>>
    THEN m
    ELSE SetAllByAyah(MapSet(m, Head(rangeAyahs).ayah, Head(rangeAyahs)), Tail(rangeAyahs))

RECURSIVE PoolMapByAyah(_, _)
PoolMapByAyah(as, ranges) ==
  IF ranges = <<>>
    THEN <<>>
    ELSE SetAllByAyah(PoolMapByAyah(as, SubSeq(ranges, 1, Len(ranges) - 1)),
                      ResolveRange(as, ranges[Len(ranges)]))

BuildPoolKeyedByAyah(as, ranges) == SortByOrder(MapValues(PoolMapByAyah(as, ranges)))

\* Variant: the final sort is missing; the pool is in Map insertion order.
BuildPoolNoSort(as, ranges) == MapValues(PoolMap(as, ranges))

\* Variant: an empty descriptor list selects the whole index.
BuildPoolEmptyMeansAll(as, ranges) ==
  IF ranges = <<>> THEN as ELSE SortByOrder(MapValues(PoolMap(as, ranges)))

buildTestPool(as, ranges) ==
  LET poolMap == PoolMap(as, ranges)
  IN SortByOrder(MapValues(poolMap))

\* buildTestPool raises when the resolver of one of its descriptors does; a
\* descriptor with an unrecognised tag reaches no resolver.
ResolveRangeThrows(as, range) ==
  IF range.type = "ayah"
    THEN VerseSpanThrows(as,
           VerseKey(range.start.surah, range.start.ayah),
           VerseKey(range.end.surah, range.end.ayah))
  ELSE IF range.type = "ruku"
    THEN RukuSpanThrows(as, range.start.juz, range.start.ruku,
                        range.end.juz, range.end.ruku)
  ELSE FALSE

BuildPoolThrows(as, ranges) ==
  \E i \in DOMAIN ranges : ResolveRangeThrows(as, ranges[i])

\* The index after buildTestPool: sort() orders the array made by
\* Array.from(poolMap.values()), the index is not its receiver.
AyahsAfterBuildTestPool(as, ranges) == as

(***************************************************************************)
(* Specification of the pool builder calls.                                *)
(***************************************************************************)
\* Steps of the indexes the pool builder is run on.
PoolSteps == [dOrder : {1}, kind : {"ayah", "juz", "surah"}, dPage : {0}]

\* Endpoints of the range descriptors (interfaces AyahRange, RukuRange,
\* JuzRange) handed to buildTestPool.
PoolVerses == {[surah |-> 1, ayah |-> 1], [surah |-> 1, ayah |-> 2]}

PoolRukus == {[juz |-> 1, ruku |-> 1], [juz |-> 1, ruku |-> 2]}

PoolJuzs == {1, 2}

\* A descriptor whose type is none of 'ayah', 'ruku', 'juz'.
UnknownRange == [type |-> "page", start |-> 1, end |-> 1]

PoolRanges ==
  [type : {"ayah"}, start : PoolVerses, end : PoolVerses]
    \cup [type : {"ruku"}, start : PoolRukus, end : PoolRukus]
    \cup [type : {"juz"}, start : PoolJuzs, end : PoolJuzs]
    \cup {UnknownRange}

InitPool ==
  /\ ayahs \in Indexes(PoolSteps)
  /\ Idle
  /\ NoRanges
  /\ QuizMounted

CallBuildPool ==
  /\ op = "none"
  /\ \E ranges \in SeqsUpTo(PoolRanges, MaxRanges) :
       /\ op' = "buildTestPool"
       /\ args' = ranges
       /\ threw' = BuildPoolThrows(ayahs, ranges)
       /\ ret' = IF BuildPoolThrows(ayahs, ranges) THEN ret
                 ELSE buildTestPool(ayahs, ranges)
       /\ ayahs' = AyahsAfterBuildTestPool(ayahs, ranges)
       /\ UNCHANGED <<selectedRanges, error, quizVars>>

NextPool == CallBuildPool \/ Discard

SpecPool == InitPool /\ [][NextPool]_vars

(***************************************************************************)
(* Properties of the pool builder.                                         *)
(***************************************************************************)
\* C1: for every non-empty descriptor list the pool is strictly ascending
\* by global_order and holds no two verses with the same verse_key.
C1_PoolSortedUnique ==
  (op = "buildTestPool" /\ args # <<>>) =>
    /\ Ascending(ret)
    /\ \A i \in 1..Len(ret), j \in 1..Len(ret) :
         ret[i].verse_key = ret[j].verse_key => i = j

\* Two descriptors that overlap without being equal, the second one
\* starting earlier in the text than the first.
OverlapOutOfOrder(r) ==
  /\ Len(r) = 2
  /\ LET x == ResolveRange(ayahs, r[1])
         y == ResolveRange(ayahs, r[2])
     IN /\ x # <<>>
        /\ y # <<>>
        /\ Range(x) \cap Range(y) # {}
        /\ y[1].global_order < x[1].global_order

C1_Witness ==
  /\ op = "buildTestPool"
  /\ OverlapOutOfOrder(args)
  /\ Len(ret) >= 3

\* C2: the verses of buildTestPool(d1 ++ d2) are the union of the verses
\* of buildTestPool(d1) and of buildTestPool(d2); every pool verse is a
\* verse of the index returned by some descriptor's resolver, and no
\* resolved verse is missing.
C2_PoolIsUnion ==
  op = "buildTestPool" =>
    /\ \A k \in 0..Len(args) :
         Range(ret) = Range(buildTestPool(ayahs, SubSeq(args, 1, k)))
                        \cup Range(buildTestPool(ayahs, SubSeq(args, k + 1, Len(args))))
    /\ Range(ret) = UNION {Range(ResolveRange(ayahs, args[i])) : i \in 1..Len(args)}
    /\ Range(ret) \subseteq Range(ayahs)

C2_Witness ==
  /\ op = "buildTestPool"
  /\ Len(args) = 2
  /\ Range(ResolveRange(ayahs, args[1])) \ Range(ResolveRange(ayahs, args[2])) # {}
  /\ Range(ResolveRange(ayahs, args[2])) \ Range(ResolveRange(ayahs, args[1])) # {}
  /\ Range(ResolveRange(ayahs, args[1])) \cap Range(ResolveRange(ayahs, args[2])) # {}

\* The rearrangements of r: r[f[1]], ..., r[f[n]] for every permutation f.
Rearrangements(r) ==
  {[i \in 1..Len(r) |-> r[f[i]]] :
     f \in {g \in [1..Len(r) -> 1..Len(r)] :
              \A i \in 1..Len(r), j \in 1..Len(r) : g[i] = g[j] => i = j}}

\* r without its repeated descriptors (the first occurrence of each is kept).
RECURSIVE Dedup(_)
Dedup(r) ==
  IF r = <<>>
    THEN <<>>
    ELSE LET front == Dedup(SubSeq(r, 1, Len(r) - 1))
         IN IF \E i \in 1..Len(front) : front[i] = r[Len(r)]
              THEN front
              ELSE Append(front, r[Len(r)])

\* C3: the pool depends only on the set of descriptors: repeating the list
\* (d1 ++ d1), dropping the repeated descriptors, or listing the descriptors
\* in any other order gives exactly the same pool sequence.
C3_PoolSetOnly ==
  op = "buildTestPool" =>
    /\ buildTestPool(ayahs, args \o args) = ret
    /\ buildTestPool(ayahs, Dedup(args)) = ret
    /\ \A q \in Rearrangements(args) : buildTestPool(ayahs, q) = ret

C3_Witness ==
  /\ op = "buildTestPool"
  /\ OverlapOutOfOrder(args)
  /\ ret = buildTestPool(ayahs, <<args[2], args[1]>>)
  /\ ret # ResolveRange(ayahs, args[1]) \o ResolveRange(ayahs, args[2])

(***************************************************************************)
(* Navigation queries.                                                     *)
(***************************************************************************)
getPrevAyah(as, current) ==
  Find(as, {i \in DOMAIN as : as[i].global_order = current.global_order - 1})

getNextAyah(as, current) ==
  Find(as, {i \in DOMAIN as : as[i].global_order = current.global_order + 1})

getFirstAyahOfPage(as, page) ==
  Find(as, {i \in DOMAIN as : as[i].page_13line = page /\ as[i].is_page_start})

\* Variant: the first verse found on the page, whatever its is_page_end.
LastAyahOfPageAnyVerse(as, page) ==
  Find(as, {i \in DOMAIN as : as[i].page_13line = page})

getLastAyahOfPage(as, page) ==
  Find(as, {i \in DOMAIN as : as[i].page_13line = page /\ as[i].is_page_end})

\* Variant: the start of the following ruku is looked up.
FirstAyahOfNextRuku(as, rukuGlobal) ==
  Find(as, {i \in DOMAIN as : as[i].ruku_global = rukuGlobal + 1 /\ as[i].is_ruku_start})

getFirstAyahOfRuku(as, rukuGlobal) ==
  Find(as, {i \in DOMAIN as : as[i].ruku_global = rukuGlobal /\ as[i].is_ruku_start})

getLastAyahOfRuku(as, rukuGlobal) ==
  LET nextRukuStart == Find(as, {i \in DOMAIN as :
                                   as[i].ruku_global = rukuGlobal + 1
                                     /\ as[i].is_ruku_start})
  IN IF nextRukuStart # undefined
       THEN getPrevAyah(as, nextRukuStart)
       ELSE LET rukuAyahs == SelectSeq(as, LAMBDA a : a.ruku_global = rukuGlobal)
            IN At(rukuAyahs, Len(rukuAyahs) - 1)

\* Variant: no fallback to the last verse when no later ruku start exists.
NearestRukuBoundaryNoLastFallback(as, current, direction) ==
  IF direction = "forward"
    THEN LET nextRuku == Find(as, {i \in DOMAIN as :
                                     as[i].global_order > current.global_order
                                       /\ as[i].is_ruku_start})
         IN IF nextRuku # undefined
              THEN LET prev == getPrevAyah(as, nextRuku)
                   IN IF prev # undefined THEN prev ELSE current
              ELSE undefined
    ELSE LET reversed == Reverse(as)
             prevRuku == Find(reversed, {i \in DOMAIN reversed :
                                           reversed[i].global_order < current.global_order
                                             /\ reversed[i].is_ruku_start})
         IN IF prevRuku # undefined THEN prevRuku ELSE At(as, 0)

\* Variant: the backward search scans from the start of the text instead of
\* from its end (the reverse() is missing).
NearestRukuBoundaryNoReverse(as, current, direction) ==
  IF direction = "forward"
    THEN LET nextRuku == Find(as, {i \in DOMAIN as :
                                     as[i].global_order > current.global_order
                                       /\ as[i].is_ruku_start})
         IN IF nextRuku # undefined
              THEN LET prev == getPrevAyah(as, nextRuku)
                   IN IF prev # undefined THEN prev ELSE current
              ELSE At(as, Len(as) - 1)
    ELSE LET prevRuku == Find(as, {i \in DOMAIN as :
                                     as[i].global_order < current.global_order
                                       /\ as[i].is_ruku_start})
         IN IF prevRuku # undefined THEN prevRuku ELSE At(as, 0)

getNearestRukuBoundary(as, current, direction) ==
  IF direction = "forward"
    THEN LET nextRuku == Find(as, {i \in DOMAIN as :
                                     as[i].global_order > current.global_order
                                       /\ as[i].is_ruku_start})
         IN IF nextRuku # undefined
              THEN LET prev == getPrevAyah(as, nextRuku)
                   IN IF prev # undefined THEN prev ELSE current
              ELSE At(as, Len(as) - 1)
    ELSE LET reversed == Reverse(as)
             prevRuku == Find(reversed, {i \in DOMAIN reversed :
                                           reversed[i].global_order < current.global_order
                                             /\ reversed[i].is_ruku_start})
         IN IF prevRuku # undefined THEN prevRuku ELSE At(as, 0)

\* current.global_order inside the find callback, which runs once per
\* verse of the index.
NextAyahThrows(as, current) == as # <<>> /\ ReadOfUndefined(current)

PrevAyahThrows(as, current) == as # <<>> /\ ReadOfUndefined(current)

\* Variant: getPrevAyah is called without the `if (nextRukuStart)` test.
LastAyahOfRukuUnguarded(as, rukuGlobal) ==
  LET nextRukuStart == Find(as, {i \in DOMAIN as :
                                   as[i].ruku_global = rukuGlobal + 1
                                     /\ as[i].is_ruku_start})
  IN PrevAyahThrows(as, nextRukuStart)

\* getPrevAyah(ayahs, nextRukuStart) is called under `if (nextRukuStart)`;
\* rukuAyahs[rukuAyahs.length - 1] reads no property.
LastAyahOfRukuThrows(as, rukuGlobal) ==
  LET nextRukuStart == Find(as, {i \in DOMAIN as :
                                   as[i].ruku_global = rukuGlobal + 1
                                     /\ as[i].is_ruku_start})
  IN IF nextRukuStart # undefined
       THEN PrevAyahThrows(as, nextRukuStart)
       ELSE FALSE

\* getPrevAyah(ayahs, nextRuku) is called under `if (nextRuku)`;
\* ayahs[ayahs.length - 1] and ayahs[0] read no property.
NearestRukuBoundaryThrows(as, current, direction) ==
  \/ as # <<>> /\ ReadOfUndefined(current)
  \/ /\ direction = "forward"
     /\ LET nextRuku == Find(as, {i \in DOMAIN as :
                                    as[i].global_order > current.global_order
                                      /\ as[i].is_ruku_start})
        IN IF nextRuku # undefined THEN PrevAyahThrows(as, nextRuku) ELSE FALSE

\* Variant: the backward search reverses the index itself.
AyahsAfterReverseInPlace(as, direction) ==
  IF direction = "backward" THEN Reverse(as) ELSE as

\* The index after getNearestRukuBoundary: reverse() acts on the copy
\* [...ayahs], in either direction the index is not a receiver.
AyahsAfterNearestRukuBoundary(as, direction) == as

(***************************************************************************)
(* Specification of the navigation calls.                                  *)
(***************************************************************************)
\* Steps of the indexes the navigation queries are run on: global_order may
\* advance by more than one, ruku ids may skip a number, pages may change.
NavSteps == [dOrder : {1, 2}, kind : {"ayah", "ruku", "skip"}, dPage : {0, 1}]

PlainStep(kind) == [dOrder |-> 1, kind |-> kind, dPage |-> 0]

\* Ten verses with global_order 1..10 and rukus starting at orders 1, 4, 8.
ExampleIndex ==
  MkIndex(<<PlainStep("ayah"), PlainStep("ayah"), PlainStep("ruku"),
            PlainStep("ayah"), PlainStep("ayah"), PlainStep("ayah"),
            PlainStep("ruku"), PlainStep("ayah"), PlainStep("ayah")>>)

InitNav ==
  /\ ayahs \in Indexes(NavSteps) \cup {ExampleIndex}
  /\ Idle
  /\ NoRanges
  /\ QuizMounted

CallNearestRukuBoundary ==
  /\ op = "none"
  /\ \E current \in Range(ayahs), direction \in {"forward", "backward"} :
       /\ op' = "getNearestRukuBoundary"
       /\ args' = <<current, direction>>
       /\ threw' = NearestRukuBoundaryThrows(ayahs, current, direction)
       /\ ret' = IF NearestRukuBoundaryThrows(ayahs, current, direction) THEN ret
                 ELSE getNearestRukuBoundary(ayahs, current, direction)
       /\ ayahs' = AyahsAfterNearestRukuBoundary(ayahs, direction)
       /\ UNCHANGED <<selectedRanges, error, quizVars>>

\* Page numbers and ruku ids handed to the lookups: those of the index and
\* one below and above them.
PageInputs(as) == 0..(SetMax({a.page_13line : a \in Range(as)} \cup {1}) + 1)

RukuGlobalInputs(as) == 0..(SetMax({a.ruku_global : a \in Range(as)} \cup {1}) + 1)

CallNextAyah ==
  /\ op = "none"
  /\ \E current \in Range(ayahs) :
       /\ op' = "getNextAyah"
       /\ args' = <<current>>
       /\ threw' = NextAyahThrows(ayahs, current)
       /\ ret' = IF NextAyahThrows(ayahs, current) THEN ret
                 ELSE getNextAyah(ayahs, current)
       /\ UNCHANGED <<ayahs, selectedRanges, error, quizVars>>

CallPrevAyah ==
  /\ op = "none"
  /\ \E current \in Range(ayahs) :
       /\ op' = "getPrevAyah"
       /\ args' = <<current>>
       /\ threw' = PrevAyahThrows(ayahs, current)
       /\ ret' = IF PrevAyahThrows(ayahs, current) THEN ret
                 ELSE getPrevAyah(ayahs, current)
       /\ UNCHANGED <<ayahs, selectedRanges, error, quizVars>>

CallFirstAyahOfPage ==
  /\ op = "none"
  /\ \E page \in PageInputs(ayahs) :
       /\ op' = "getFirstAyahOfPage"
       /\ args' = <<page>>
       /\ threw' = FALSE
       /\ ret' = getFirstAyahOfPage(ayahs, page)
       /\ UNCHANGED <<ayahs, selectedRanges, error, quizVars>>

CallLastAyahOfPage ==
  /\ op = "none"
  /\ \E page \in PageInputs(ayahs) :
       /\ op' = "getLastAyahOfPage"
       /\ args' = <<page>>
       /\ threw' = FALSE
       /\ ret' = getLastAyahOfPage(ayahs, page)
       /\ UNCHANGED <<ayahs, selectedRanges, error, quizVars>>

CallFirstAyahOfRuku ==
  /\ op = "none"
  /\ \E rukuGlobal \in RukuGlobalInputs(ayahs) :
       /\ op' = "getFirstAyahOfRuku"
       /\ args' = <<rukuGlobal>>
       /\ threw' = FALSE
       /\ ret' = getFirstAyahOfRuku(ayahs, rukuGlobal)
       /\ UNCHANGED <<ayahs, selectedRanges, error, quizVars>>

CallLastAyahOfRuku ==
  /\ op = "none"
  /\ \E rukuGlobal \in RukuGlobalInputs(ayahs) :
       /\ op' = "getLastAyahOfRuku"
       /\ args' = <<rukuGlobal>>
       /\ threw' = LastAyahOfRukuThrows(ayahs, rukuGlobal)
       /\ ret' = IF LastAyahOfRukuThrows(ayahs, rukuGlobal) THEN ret
                 ELSE getLastAyahOfRuku(ayahs, rukuGlobal)
       /\ UNCHANGED <<ayahs, selectedRanges, error, quizVars>>

NextNav ==
  \/ CallNearestRukuBoundary
  \/ CallNextAyah
  \/ CallPrevAyah
  \/ CallFirstAyahOfPage
  \/ CallLastAyahOfPage
  \/ CallFirstAyahOfRuku
  \/ CallLastAyahOfRuku
  \/ Discard

SpecNav == InitNav /\ [][NextNav]_vars

(***************************************************************************)
(* Properties of the navigation queries.                                   *)
(***************************************************************************)
\* The verse of S with the lowest / the highest global_order.
FirstOf(S) == CHOOSE a \in S : \A b \in S : a.global_order <= b.global_order

LastOf(S) == CHOOSE a \in S : \A b \in S : a.global_order >= b.global_order

\* The ruku starts after / before verse v.
StartsAfter(as, v) ==
  {a \in Range(as) : a.is_ruku_start /\ a.global_order > v.global_order}

StartsBefore(as, v) ==
  {a \in Range(as) : a.is_ruku_start /\ a.global_order < v.global_order}

\* The verse immediately preceding verse n in global_order.
Preceding(as, n) == LastOf({a \in Range(as) : a.global_order < n.global_order})

\* No global_order between the first and the last verse is unused.
GapFree(as) ==
  \A i \in 1..(Len(as) - 1) : as[i + 1].global_order = as[i].global_order + 1

\* C9: getNearestRukuBoundary(v, 'forward') returns the verse immediately
\* preceding, in global_order, the first verse after v that has
\* is_ruku_start, and the verse with the maximum global_order of the index
\* when there is no such later start.
C9_ForwardBoundary ==
  (op = "getNearestRukuBoundary" /\ args[2] = "forward") =>
    IF StartsAfter(ayahs, args[1]) = {}
      THEN ret = LastOf(Range(ayahs))
      ELSE ret = Preceding(ayahs, FirstOf(StartsAfter(ayahs, args[1])))

\* C9 on the indexes whose global_order has no gaps, where the verse before
\* the next start is found at global_order - 1.
C9_ForwardBoundaryGapFree ==
  (op = "getNearestRukuBoundary" /\ args[2] = "forward" /\ GapFree(ayahs)) =>
    IF StartsAfter(ayahs, args[1]) = {}
      THEN ret = LastOf(Range(ayahs))
      ELSE ret = Preceding(ayahs, FirstOf(StartsAfter(ayahs, args[1])))

\* C9, the example: orders 1..10, starts at 1, 4, 8; forward from order 5
\* gives order 7.
C9_Example ==
  (/\ op = "getNearestRukuBoundary"
   /\ args[2] = "forward"
   /\ ayahs = ExampleIndex
   /\ args[1].global_order = 5)
    => ret.global_order = 7

\* C10: getNearestRukuBoundary(v, 'backward') returns the verse with the
\* greatest global_order among the verses that have is_ruku_start and a
\* global_order strictly less than v's, and the verse with the minimum
\* global_order of the index when there is none; in the example (orders
\* 1..10, starts at 1, 4, 8) backward from order 5 gives order 4.
C10_BackwardBoundary ==
  (op = "getNearestRukuBoundary" /\ args[2] = "backward") =>
    /\ IF StartsBefore(ayahs, args[1]) = {}
         THEN ret = FirstOf(Range(ayahs))
         ELSE ret = LastOf(StartsBefore(ayahs, args[1]))
    /\ (ayahs = ExampleIndex /\ args[1].global_order = 5) => ret.global_order = 4

C10_Witness ==
  /\ op = "getNearestRukuBoundary"
  /\ args[2] = "backward"
  /\ ayahs = ExampleIndex
  /\ args[1].global_order = 5
  /\ ret.global_order = 4

\* C11: getNearestRukuBoundary never fails: for every verse of the index
\* and both directions it returns a verse of the index, never undefined;
\* backward from the first verse of the index gives the first verse and
\* forward from the last verse of the index gives the last verse.
C11_BoundaryAlwaysVerse ==
  op = "getNearestRukuBoundary" =>
    /\ ret # undefined
    /\ ret \in Range(ayahs)
    /\ (args[2] = "backward" /\ args[1] = ayahs[1]) => ret = ayahs[1]
    /\ (args[2] = "forward" /\ args[1] = ayahs[Len(ayahs)]) => ret = ayahs[Len(ayahs)]

C11_Witness ==
  /\ op = "getNearestRukuBoundary"
  /\ Len(ayahs) >= 3
  /\ args[2] = "forward"
  /\ args[1] = ayahs[Len(ayahs)]
  /\ ret = ayahs[Len(ayahs)]

\* The verses of ruku s / of page p.
OfRuku(as, s) == {a \in Range(as) : a.ruku_global = s}

OnPage(as, p) == {a \in Range(as) : a.page_13line = p}

\* C12: for every ruku s present in the index, getLastAyahOfRuku(s) is the
\* verse with the maximum global_order among the verses with ruku_global = s,
\* on both code paths (a ruku s + 1 exists / s is the final ruku).
C12_LastOfRukuIsMax ==
  (op = "getLastAyahOfRuku" /\ OfRuku(ayahs, args[1]) # {}) =>
    ret = LastOf(OfRuku(ayahs, args[1]))

\* C12 on the indexes whose global_order has no gaps.
C12_LastOfRukuIsMaxGapFree ==
  (op = "getLastAyahOfRuku" /\ OfRuku(ayahs, args[1]) # {} /\ GapFree(ayahs)) =>
    ret = LastOf(OfRuku(ayahs, args[1]))

\* The verses of the index at global_order n.
AtOrder(as, n) == {a \in Range(as) : a.global_order = n}

\* C13: getNextAyah(v) is the verse whose global_order is v.global_order + 1
\* and is undefined exactly when v is the last verse of the index;
\* getPrevAyah(v) is the verse whose global_order is v.global_order - 1 and is
\* undefined exactly when v is the first verse of the index.
C13_NextPrevAdjacent ==
  /\ op = "getNextAyah" =>
       /\ \A a \in AtOrder(ayahs, args[1].global_order + 1) : ret = a
       /\ ret = undefined <=> args[1] = ayahs[Len(ayahs)]
  /\ op = "getPrevAyah" =>
       /\ \A a \in AtOrder(ayahs, args[1].global_order - 1) : ret = a
       /\ ret = undefined <=> args[1] = ayahs[1]

\* C13 on the indexes whose global_order has no gaps.
C13_NextPrevAdjacentGapFree ==
  GapFree(ayahs) =>
    /\ op = "getNextAyah" =>
         /\ \A a \in AtOrder(ayahs, args[1].global_order + 1) : ret = a
         /\ ret = undefined <=> args[1] = ayahs[Len(ayahs)]
    /\ op = "getPrevAyah" =>
         /\ \A a \in AtOrder(ayahs, args[1].global_order - 1) : ret = a
         /\ ret = undefined <=> args[1] = ayahs[1]

\* C18: getFirstAyahOfPage(p) is the verse on page p with is_page_start,
\* getLastAyahOfPage(p) the verse on page p with is_page_end; these are the
\* verses of lowest and highest global_order on page p; each is undefined
\* when the index has no verse on page p.
C18_FirstLastOfPage ==
  /\ op = "getFirstAyahOfPage" =>
       IF OnPage(ayahs, args[1]) = {}
         THEN ret = undefined
         ELSE /\ ret = FirstOf(OnPage(ayahs, args[1]))
              /\ ret.is_page_start
  /\ op = "getLastAyahOfPage" =>
       IF OnPage(ayahs, args[1]) = {}
         THEN ret = undefined
         ELSE /\ ret = LastOf(OnPage(ayahs, args[1]))
              /\ ret.is_page_end

C18_Witness ==
  /\ op = "getLastAyahOfPage"
  /\ Cardinality(OnPage(ayahs, args[1])) >= 2
  /\ \E a \in Range(ayahs) : a.page_13line > args[1]
  /\ ret = LastOf(OnPage(ayahs, args[1]))

\* C19: getFirstAyahOfRuku(s) is the verse with ruku_global = s and
\* is_ruku_start, which is the lowest-global_order verse of ruku s, and is
\* undefined when no verse has ruku_global = s.
C19_FirstOfRuku ==
  op = "getFirstAyahOfRuku" =>
    IF OfRuku(ayahs, args[1]) = {}
      THEN ret = undefined
      ELSE /\ ret = FirstOf(OfRuku(ayahs, args[1]))
           /\ ret.is_ruku_start

C19_Witness ==
  /\ op = "getFirstAyahOfRuku"
  /\ Cardinality(OfRuku(ayahs, args[1])) >= 2
  /\ \E a \in Range(ayahs) : a.ruku_global < args[1]
  /\ ret = FirstOf(OfRuku(ayahs, args[1]))

\* C17: when the resolution of one descriptor is a subset of the resolution
\* of another, the pool of the two descriptors together (in either order) is
\* the resolution of the larger descriptor alone.
C17_SubsetCollapses ==
  (op = "buildTestPool" /\ Len(args) = 2) =>
    \A i \in 1..2, j \in 1..2 :
      (i # j /\ Range(ResolveRange(ayahs, args[i])) \subseteq Range(ResolveRange(ayahs, args[j])))
        => ret = ResolveRange(ayahs, args[j])

C17_Witness ==
  /\ op = "buildTestPool"
  /\ Len(args) = 2
  /\ args[1].type = "ayah"
  /\ args[2].type = "juz"
  /\ ResolveRange(ayahs, args[1]) # <<>>
  /\ Range(ResolveRange(ayahs, args[1])) \subseteq Range(ResolveRange(ayahs, args[2]))
  /\ Range(ResolveRange(ayahs, args[1])) # Range(ResolveRange(ayahs, args[2]))
  /\ ret = ResolveRange(ayahs, args[2])

\* C20: buildTestPool of the empty descriptor list is the empty sequence,
\* for every index.
C20_EmptyListEmptyPool ==
  (op = "buildTestPool" /\ args = <<>>) => ret = <<>>

C20_Witness ==
  /\ op = "buildTestPool"
  /\ args = <<>>
  /\ Len(ayahs) >= 2
  /\ ret = <<>>

\* The ruku ids of the index are consecutive numbers.
RukuIdsGapFree(as) ==
  \A i \in 1..(Len(as) - 1) : as[i + 1].ruku_global <= as[i].ruku_global + 1

\* C21: for every ruku number s, present in the index or not, and also when
\* the ruku ids have gaps, a verse returned by getLastAyahOfRuku(s) has
\* ruku_global = s.
C21_LastOfRukuInRuku ==
  (op = "getLastAyahOfRuku" /\ ret # undefined) => ret.ruku_global = args[1]

\* C21 on indexes whose ruku ids are consecutive: the verse before the start
\* of ruku s + 1 belongs to ruku s.
C21_LastOfRukuInRukuConsecutiveIds ==
  (op = "getLastAyahOfRuku" /\ ret # undefined /\ RukuIdsGapFree(ayahs) /\ args[1] >= 1)
    => ret.ruku_global = args[1]

\* C22: the forward ruku boundary of a verse v is not before v, lies in the
\* ruku of v and is the verse getLastAyahOfRuku gives for that ruku.
C22_ForwardBoundaryInRuku ==
  (op = "getNearestRukuBoundary" /\ args[2] = "forward") =>
    /\ ret # undefined
    /\ ret.global_order >= args[1].global_order
    /\ ret.ruku_global = args[1].ruku_global
    /\ ret = getLastAyahOfRuku(ayahs, args[1].ruku_global)

\* C22 without the comparison to getLastAyahOfRuku: holds on every index.
C22_ForwardBoundaryStaysInRuku ==
  (op = "getNearestRukuBoundary" /\ args[2] = "forward") =>
    /\ ret # undefined
    /\ ret.global_order >= args[1].global_order
    /\ ret.ruku_global = args[1].ruku_global

\* C22 on indexes whose global_order has no gap.
C22_ForwardBoundaryInRukuGapFree ==
  (op = "getNearestRukuBoundary" /\ args[2] = "forward" /\ GapFree(ayahs)) =>
    ret = getLastAyahOfRuku(ayahs, args[1].ruku_global)

(***************************************************************************)
(* Specification of all engine calls together.                             *)
(***************************************************************************)
\* Steps of the indexes every engine function is run on: a verse of the same
\* ruku, a ruku start on a new page after a global_order gap, a ruku start
\* after a gap in the ruku ids, a juz start.
EngineSteps ==
  {[dOrder |-> 1, kind |-> "ayah", dPage |-> 0],
   [dOrder |-> 2, kind |-> "ruku", dPage |-> 1],
   [dOrder |-> 1, kind |-> "skip", dPage |-> 0],
   [dOrder |-> 1, kind |-> "juz", dPage |-> 0]}

InitEngine ==
  /\ ayahs \in Indexes(EngineSteps)
  /\ Idle
  /\ NoRanges
  /\ QuizMounted

NextEngine ==
  \/ CallVerseSpan
  \/ CallRukuSpan
  \/ CallJuzRange
  \/ CallBuildPool
  \/ CallNextAyah
  \/ CallPrevAyah
  \/ CallFirstAyahOfPage
  \/ CallLastAyahOfPage
  \/ CallFirstAyahOfRuku
  \/ CallLastAyahOfRuku
  \/ CallNearestRukuBoundary
  \/ Discard

SpecEngine == InitEngine /\ [][NextEngine]_vars

NumJuz == 30

\* getValidRukus(juz): the ruku_in_juz values the index has in that juz.
getValidRukus(as, juz) == {a.ruku_in_juz : a \in {b \in Range(as) : b.juz_number = juz}}

\* What the form can hold.  The surah / ayah fields are free number inputs;
\* a juz comes from the selector; a ruku is 1 (the value set when a juz is
\* picked) or one of the valid rukus of the chosen juz.
FormVerses == PoolVerses

FormJuzs == {j \in PoolJuzs : j >= 1 /\ j <= NumJuz}

FormRukus(as) ==
  {r \in PoolRukus : r.juz \in FormJuzs /\ (r.ruku = 1 \/ r.ruku \in getValidRukus(as, r.juz))}

\* ayahs.find(a => a.surah === p.surah && a.ayah === p.ayah)
FindVerse(as, p) ==
  Find(as, {i \in DOMAIN as : as[i].surah = p.surah /\ as[i].ayah = p.ayah})

\* The outcome of addRange's checks on an ayah range: the error shown, or
\* "null" when the range is accepted.
AyahRangeError(as, ayahStart, ayahEnd) ==
  LET startAyah == FindVerse(as, ayahStart)
      endAyah   == FindVerse(as, ayahEnd)
  IN IF startAyah = undefined \/ endAyah = undefined
       THEN "Invalid surah or ayah number."
     ELSE IF startAyah.global_order > endAyah.global_order
       THEN "End ayah cannot be before start ayah."
     ELSE "null"

RukuRangeError(as, rukuStart, rukuEnd) ==
  LET startRukuAyahs == get_ayahs_for_ruku(as, rukuStart.juz, rukuStart.ruku)
      endRukuAyahs   == get_ayahs_for_ruku(as, rukuEnd.juz, rukuEnd.ruku)
  IN IF Len(startRukuAyahs) = 0 \/ Len(endRukuAyahs) = 0
       THEN "Invalid ruku selection."
     ELSE IF startRukuAyahs[1].global_order > endRukuAyahs[1].global_order
       THEN "End ruku cannot be before start ruku."
     ELSE "null"

JuzRangeError(as, juzStart, juzEnd) ==
  IF juzStart > juzEnd THEN "End juz cannot be before start juz." ELSE "null"

\* addRange, after its checks: setRanges([...ranges, newRange]) when no
\* error was set, the list as it was otherwise.
AfterAddRange(rs, newRange, message) ==
  IF message = "null" THEN Append(rs, newRange) ELSE rs

\* addRange on the ayah tab: setError(null), the checks, then either
\* setError(message) or the append.
AddAyahRange ==
  /\ Len(selectedRanges) < MaxRanges
  /\ \E ayahStart \in FormVerses, ayahEnd \in FormVerses :
       LET message == AyahRangeError(ayahs, ayahStart, ayahEnd)
           newRange == [type |-> "ayah", start |-> ayahStart, end |-> ayahEnd]
       IN /\ error' = message
          /\ selectedRanges' = AfterAddRange(selectedRanges, newRange, message)
          /\ UNCHANGED <<ayahs, op, args, ret, threw, quizVars>>

\* addRange on the ruku tab.
AddRukuRange ==
  /\ Len(selectedRanges) < MaxRanges
  /\ \E rukuStart \in FormRukus(ayahs), rukuEnd \in FormRukus(ayahs) :
       LET message == RukuRangeError(ayahs, rukuStart, rukuEnd)
           newRange == [type |-> "ruku", start |-> rukuStart, end |-> rukuEnd]
       IN /\ error' = message
          /\ selectedRanges' = AfterAddRange(selectedRanges, newRange, message)
          /\ UNCHANGED <<ayahs, op, args, ret, threw, quizVars>>

\* addRange on the juz tab.
AddJuzRange ==
  /\ Len(selectedRanges) < MaxRanges
  /\ \E juzStart \in FormJuzs, juzEnd \in FormJuzs :
       LET message == JuzRangeError(ayahs, juzStart, juzEnd)
           newRange == [type |-> "juz", start |-> juzStart, end |-> juzEnd]
       IN /\ error' = message
          /\ selectedRanges' = AfterAddRange(selectedRanges, newRange, message)
          /\ UNCHANGED <<ayahs, op, args, ret, threw, quizVars>>

\* removeRange(index): ranges.filter((_, i) => i !== index)
RemoveRange ==
  \E index \in 0..(Len(selectedRanges) - 1) :
    /\ selectedRanges' = [i \in 1..(Len(selectedRanges) - 1) |->
                    IF i <= index THEN selectedRanges[i] ELSE selectedRanges[i + 1]]
    /\ UNCHANGED <<ayahs, op, args, ret, threw, error, quizVars>>

\* clearPool, offered when ranges.length > 0.
ClearPool ==
  /\ Len(selectedRanges) > 0
  /\ selectedRanges' = <<>>
  /\ UNCHANGED <<ayahs, op, args, ret, threw, error, quizVars>>

InitBuilder ==
  /\ ayahs \in Indexes(PoolSteps)
  /\ Idle
  /\ NoRanges
  /\ QuizMounted

NextBuilder == AddAyahRange \/ AddRukuRange \/ AddJuzRange \/ RemoveRange \/ ClearPool

SpecBuilder == InitBuilder /\ [][NextBuilder]_vars

\* C16: every range descriptor that addRange appended to the descriptor list
\* resolves through its resolver to a non-empty verse sequence, for all
\* three descriptor kinds (a range whose resolution is empty is rejected).
C16_AcceptedRangesResolve ==
  \A i \in 1..Len(selectedRanges) : ResolveRange(ayahs, selectedRanges[i]) # <<>>

\* C16 for the ayah and ruku descriptors, whose checks in addRange look the
\* endpoints up in the index.
C16_AyahRukuRangesResolve ==
  \A i \in 1..Len(selectedRanges) :
    selectedRanges[i].type \in {"ayah", "ruku"} => ResolveRange(ayahs, selectedRanges[i]) # <<>>

\* C16, the rejection: an ayah or ruku range that resolves to the empty
\* sequence is answered with an error and leaves the list unchanged.
C16_EmptyAyahRukuRejected ==
  [][\A r \in PoolRanges :
       (r.type \in {"ayah", "ruku"} /\ ResolveRange(ayahs, r) = <<>>)
         => selectedRanges' # Append(selectedRanges, r)]_vars

(***************************************************************************)
(* The quiz (QuizView).  startQuiz is followed step by step: its state     *)
(* updates are batched by React and take effect when the handler returns,  *)
(* so they are applied by the step that ends it.  handleAnswer is split at *)
(* its `await fetch`: the click captures the values of the render it was   *)
(* made in, the server stores the attempt, and the rest of the handler     *)
(* runs when the response arrives.  focusWeak is false (its default), so   *)
(* questions are drawn from the whole test pool.                           *)
(***************************************************************************)
\* Most handleAnswer calls that await their POST at the same time.
MaxInFlight == 2

\* Most calls of startQuiz in a run.
MaxQuizzes == 1

\* Most wrong answers the user gives in a run.
MaxWrong == 3

\* Most clicks the user makes while an earlier answer still awaits its POST.
MaxOverlaps == 1

\* const count = v === 'normal' ? 25 : 100
NormalCount == 25

LongCount == 100

\* setLives(3), setTimeLeft(60), while (options.size < 4),
\* variant === 'normal' && currentIndex >= 24
StartLives == 3

StartTime == 60

OptionCount == 4

LastNormalIndex == 24

QUESTION_TYPES_QUIZ ==
  {"ayah_number", "page_number", "juz_number", "ruku_number", "ayah_key",
   "next_ayah", "prev_ayah", "x_after", "x_before",
   "first_of_page", "last_of_page", "first_of_ruku", "last_of_ruku"}

QuizVariants == {"normal", "speedrun", "highscore"}

\* const testPool = useMemo(() => engine.buildTestPool(ayahs, ranges), ...)
TestPool == buildTestPool(ayahs, selectedRanges)

QuestionCount(v) == IF v = "normal" THEN NormalCount ELSE LongCount

\* q.answer, by the switch on the question type.
QuestionAnswer(type, randomAyah) ==
  CASE type = "ayah_number" -> ToString(randomAyah.ayah)
    [] type = "page_number" -> ToString(randomAyah.page_13line)
    [] OTHER                -> randomAyah.verse_key

\* The value the option loop adds for the verse `other`.
OptionValue(type, other) ==
  IF type = "ayah_number" THEN ToString(other.ayah) ELSE ToString(other.page_13line)

\* Array.from(options).sort(() => Math.random() - 0.5): the options in some order.
Shuffles(S) ==
  {order \in [1..Cardinality(S) -> S] :
     \A i, j \in 1..Cardinality(S) : i # j => order[i] # order[j]}

\* What QuizView renders.
ResultsShown == finished

QuestionShown == ~finished /\ quizActive

MenuShown == ~finished /\ ~quizActive

engineVars == <<ayahs, op, args, ret, threw, selectedRanges, error>>

\* startQuiz(v), from a button of the menu or from Try Again on the results
\* screen (startQuiz(variant!)); it returns at once on an empty test pool.
StartQuiz ==
  /\ pc = "idle"
  /\ started < MaxQuizzes
  /\ Len(TestPool) # 0
  /\ \E v \in QuizVariants :
       /\ MenuShown \/ (ResultsShown /\ v = variant)
       /\ gen' = [v |-> v, i |-> 0]
  /\ pc' = "pick"
  /\ started' = started + 1
  /\ UNCHANGED <<engineVars, variant, nQuestions, currentIndex, score, lives,
                 timeLeft, finished, quizActive, nAttempts, dbAttempts,
                 inflight, nWrong, nOverlaps, question, options>>

\* One turn of `for (let i = 0; i < count; i++)` up to the option loop: the
\* random verse, the random type, the question and the Set holding its answer.
PickQuestion ==
  /\ pc = "pick"
  /\ gen.i < QuestionCount(gen.v)
  /\ \E randomAyah \in Range(TestPool), type \in QUESTION_TYPES_QUIZ :
       /\ question' = [id |-> gen.i, type |-> type, ayah |-> randomAyah,
                       answer |-> QuestionAnswer(type, randomAyah), options |-> <<>>]
       /\ options' = {QuestionAnswer(type, randomAyah)}
  /\ pc' = "options"
  /\ UNCHANGED <<engineVars, variant, nQuestions, currentIndex, score, lives,
                 timeLeft, finished, quizActive, nAttempts, dbAttempts,
                 inflight, started, nWrong, nOverlaps, gen>>

\* One turn of `while (options.size < 4)`.
AddOption ==
  /\ pc = "options"
  /\ Cardinality(options) < OptionCount
  /\ \E other \in Range(TestPool) :
       options' = options \cup {OptionValue(question.type, other)}
  /\ UNCHANGED <<engineVars, variant, nQuestions, currentIndex, score, lives,
                 timeLeft, finished, quizActive, nAttempts, dbAttempts,
                 inflight, started, nWrong, nOverlaps, pc, gen, question>>

\* The option loop is left: q.options is set and q is pushed to qs.
PushQuestion ==
  /\ pc = "options"
  /\ Cardinality(options) >= OptionCount
  /\ \E order \in Shuffles(options) :
       question' = [question EXCEPT !.options = order]
  /\ options' = {}
  /\ gen' = [gen EXCEPT !.i = @ + 1]
  /\ pc' = "pick"
  /\ UNCHANGED <<engineVars, variant, nQuestions, currentIndex, score, lives,
                 timeLeft, finished, quizActive, nAttempts, dbAttempts,
                 inflight, started, nWrong, nOverlaps>>

\* The for loop is left: setQuestions(qs), setActive(true), and the updates
\* queued at the top of startQuiz take effect.
FinishStartQuiz ==
  /\ pc = "pick"
  /\ gen.i >= QuestionCount(gen.v)
  /\ variant' = gen.v
  /\ score' = 0
  /\ lives' = StartLives
  /\ timeLeft' = StartTime
  /\ currentIndex' = 0
  /\ finished' = FALSE
  /\ nQuestions' = gen.i
  /\ quizActive' = TRUE
  /\ pc' = "idle"
  /\ gen' = [v |-> "null", i |-> 0]
  /\ question' = [type |-> "none"]
  /\ UNCHANGED <<engineVars, nAttempts, dbAttempts, inflight, started,
                 nWrong, nOverlaps, options>>

\* handleAnswer up to `await fetch('/api/attempt', ...)`, on a click on an
\* option of the question shown.  const q = questions[currentIndex] and the
\* values of this render (currentIndex, lives, variant, attempts) stay with
\* the call.
ClickAnswer ==
  /\ pc = "idle"
  /\ QuestionShown
  /\ currentIndex < nQuestions
  /\ Len(inflight) < MaxInFlight
  /\ inflight # <<>> => nOverlaps < MaxOverlaps
  /\ nOverlaps' = IF inflight # <<>> THEN nOverlaps + 1 ELSE nOverlaps
  /\ \E isCorrect \in BOOLEAN :
       /\ ~isCorrect => nWrong < MaxWrong
       /\ nWrong' = IF isCorrect THEN nWrong ELSE nWrong + 1
       /\ inflight' = Append(inflight,
                        [currentIndex |-> currentIndex, lives |-> lives,
                         variant |-> variant, attempts |-> nAttempts,
                         isCorrect |-> isCorrect, stored |-> FALSE])
  /\ UNCHANGED <<engineVars, variant, nQuestions, currentIndex, score, lives,
                 timeLeft, finished, quizActive, nAttempts, dbAttempts,
                 started, pc, gen, question, options>>

\* The server's POST /api/attempt: one row is inserted.
ServerAttempt ==
  /\ \E k \in DOMAIN inflight :
       /\ ~inflight[k].stored
       /\ inflight' = [inflight EXCEPT ![k].stored = TRUE]
  /\ dbAttempts' = dbAttempts + 1
  /\ UNCHANGED <<engineVars, variant, nQuestions, currentIndex, score, lives,
                 timeLeft, finished, quizActive, nAttempts, started, nWrong,
                 nOverlaps, pc, gen, question, options>>

\* handleAnswer after the await, once the response has arrived.
CompleteAnswer ==
  /\ pc = "idle"
  /\ \E k \in DOMAIN inflight :
       LET call == inflight[k]
           lifeLost == ~call.isCorrect /\ call.variant = "highscore"
           wasLast == call.variant = "normal" /\ call.currentIndex >= LastNormalIndex
       IN /\ call.stored
          /\ nAttempts' = call.attempts + 1
          /\ score' = IF call.isCorrect THEN score + 1 ELSE score
          /\ lives' = IF lifeLost THEN lives - 1 ELSE lives
          /\ finished' = (finished \/ (lifeLost /\ call.lives <= 1) \/ wasLast)
          /\ currentIndex' = IF wasLast THEN currentIndex ELSE currentIndex + 1
          /\ inflight' = [i \in 1..(Len(inflight) - 1) |->
                            IF i < k THEN inflight[i] ELSE inflight[i + 1]]
  /\ UNCHANGED <<engineVars, variant, nQuestions, timeLeft, quizActive,
                 dbAttempts, started, nWrong, nOverlaps, pc, gen, question,
                 options>>

\* The speedrun timer: setTimeLeft(t => t - 1) every second while the quiz
\* is active, and the effect's setFinished(true) when timeLeft is 0.
Tick ==
  /\ pc = "idle"
  /\ quizActive
  /\ variant = "speedrun"
  /\ timeLeft > 0
  /\ timeLeft' = timeLeft - 1
  /\ finished' = (finished \/ timeLeft' = 0)
  /\ UNCHANGED <<engineVars, variant, nQuestions, currentIndex, score, lives,
                 quizActive, nAttempts, dbAttempts, inflight, started,
                 nWrong, nOverlaps, pc, gen, question, options>>

\* Back to Menu on the results screen: setActive(false).
BackToMenu ==
  /\ pc = "idle"
  /\ ResultsShown
  /\ quizActive
  /\ quizActive' = FALSE
  /\ UNCHANGED <<engineVars, variant, nQuestions, currentIndex, score, lives,
                 timeLeft, finished, nAttempts, dbAttempts, inflight,
                 started, nWrong, nOverlaps, pc, gen, question, options>>

\* Steps of the indexes the quiz is run on: verses of one juz, on the same
\* page or on a new one.
QuizSteps ==
  {[dOrder |-> 1, kind |-> "ayah", dPage |-> 0],
   [dOrder |-> 1, kind |-> "ayah", dPage |-> 1]}

\* The ranges added in the range builder: none, or Juz 1.
QuizRanges == {<<>>, <<[type |-> "juz", start |-> 1, end |-> 1]>>}

InitQuiz ==
  /\ ayahs \in Indexes(QuizSteps)
  /\ Idle
  /\ selectedRanges \in QuizRanges
  /\ error = "null"
  /\ QuizMounted

NextQuiz ==
  \/ StartQuiz
  \/ PickQuestion
  \/ AddOption
  \/ PushQuestion
  \/ FinishStartQuiz
  \/ ClickAnswer
  \/ ServerAttempt
  \/ CompleteAnswer
  \/ Tick
  \/ BackToMenu

SpecQuiz == InitQuiz /\ [][NextQuiz]_vars

(***************************************************************************)
(* Properties of the quiz.                                                 *)
(***************************************************************************)
\* C23: startQuiz terminates for every non-empty test pool: while the
\* option loop holds fewer than 4 options, some verse of the test pool
\* gives an option not yet in the set; otherwise every further turn leaves
\* the set as it is, the `while` never ends, and startQuiz never returns.
C23_OptionLoopCanFinish ==
  (pc = "options" /\ Cardinality(options) < OptionCount) =>
    \E other \in Range(TestPool) : OptionValue(question.type, other) \notin options

\* C23, the part about the questions startQuiz did generate: each has
\* exactly 4 distinct options, its answer among them.
C23_PushedQuestionHasFourOptions ==
  (pc = "pick" /\ question.type # "none") =>
    /\ Len(question.options) = OptionCount
    /\ \A i, j \in 1..OptionCount : i # j => question.options[i] # question.options[j]
    /\ \E i \in 1..OptionCount : question.options[i] = question.answer

\* C24: while a quiz is active and not finished, currentIndex is an index
\* of the question list.
C24_CurrentIndexValid ==
  (quizActive /\ ~finished) => (0 <= currentIndex /\ currentIndex < nQuestions)

\* C24 for runs in which no click was made while an answer awaited its POST.
C24_CurrentIndexValidNoOverlap ==
  (quizActive /\ ~finished /\ nOverlaps = 0) =>
    (0 <= currentIndex /\ currentIndex < nQuestions)

\* C24 for the highscore variant without overlapping clicks.
C24_CurrentIndexValidHighscore ==
  (quizActive /\ ~finished /\ nOverlaps = 0 /\ variant = "highscore") =>
    (0 <= currentIndex /\ currentIndex < nQuestions)

\* C24 for the normal variant without overlapping clicks.
C24_CurrentIndexValidNormal ==
  (quizActive /\ ~finished /\ nOverlaps = 0 /\ variant = "normal") =>
    (0 <= currentIndex /\ currentIndex < nQuestions)

\* C25: Back to Menu on the results screen of a finished quiz brings the
\* menu back: the results screen is gone and a variant can be started.
C25_BackToMenuShowsMenu ==
  [][(ResultsShown /\ quizActive /\ ~quizActive') => (MenuShown' /\ ~ResultsShown')]_vars

\* C26: in the highscore variant lives stays within 0..3 and the quiz is
\* finished exactly when lives is 0.
C26_ThreeLives ==
  variant = "highscore" =>
    /\ lives \in 0..StartLives
    /\ finished <=> lives = 0

\* C26 for runs in which no click was made while an answer awaited its POST.
C26_ThreeLivesNoOverlap ==
  (variant = "highscore" /\ nOverlaps = 0) =>
    /\ lives \in 0..StartLives
    /\ finished <=> lives = 0

\* C27: once no handleAnswer call is under way, the client's attempts list
\* holds one record per answer submitted, as many as the server stored.
C27_AttemptsRecordedOnce ==
  inflight = <<>> => nAttempts = dbAttempts

\* C27 for runs in which no click was made while an answer awaited its POST.
C27_AttemptsRecordedOnceNoOverlap ==
  (inflight = <<>> /\ nOverlaps = 0) => nAttempts = dbAttempts

====
